---------------------------- MODULE Spec2Model ----------------------------
(***************************************************************************)
(* Currency-Exchange-Analyzer: the in-memory analytics engine              *)
(* (CurrencyAnalyzer), its quote records (CurrencyPair) and the operations *)
(* the menu of main() runs on one engine.                                  *)
(*                                                                         *)
(* Numbers.  A double is modelled by an exact rational <<n, d>> in lowest  *)
(* terms with d >= 0; d = 0 stands for the IEEE specials the code can      *)
(* produce by dividing by a zero price: <<1,0>> = +inf, <<-1,0>> = -inf,   *)
(* <<0,0>> = NaN.  Rounding and the sign of zero are not modelled.         *)
(*                                                                         *)
(* Strings.  A std::string is a sequence of symbols; a symbol is either    *)
(* the separator "/" or a run of letters ("USD", "A", ...).                *)
(***************************************************************************)
EXTENDS Integers, Sequences, FiniteSets, TLC

VARIABLES
    currencyPairs,   \* CurrencyAnalyzer::currencyPairs (vector, in load order)
    baseRates,       \* CurrencyAnalyzer::baseRates (currency -> units per USD)
    derivedFrom,     \* history: the collection calculateBaseRates last ran on
    lastCall,        \* the operation that ran last, with its arguments
    result,          \* what that operation returned (or the exception it threw)
    arbitrageOpps    \* identifyTradingOpportunities' local arbitrageOpps

vars == <<currencyPairs, baseRates, derivedFrom, lastCall, result, arbitrageOpps>>

----------------------------------------------------------------------------
(* Bounds of the model *)

MaxQuotes == 3

MaxCount == 3

----------------------------------------------------------------------------
(* double arithmetic, exact *)

Sign(n) == IF n > 0 THEN 1 ELSE IF n < 0 THEN -1 ELSE 0

AbsInt(n) == IF n < 0 THEN -n ELSE n

RECURSIVE GCD(_, _)
GCD(a, b) == IF b = 0 THEN a ELSE GCD(b, a % b)

\* the value n/d (d >= 0) in lowest terms; n/0 is +inf, -inf or NaN
Norm(n, d) ==
    IF d = 0 THEN <<Sign(n), 0>>
    ELSE LET g == GCD(AbsInt(n), d) IN <<n \div g, d \div g>>

R(n, d) == Norm(n, d)

Zero == <<0, 1>>

One == <<1, 1>>

Hundred == <<100, 1>>

NaN == <<0, 0>>

IsNaN(a) == a = NaN

IsFinite(a) == a[2] # 0

RMul(a, b) == Norm(a[1] * b[1], a[2] * b[2])

RDiv(a, b) ==
    LET n == a[1] * b[2]
        d == a[2] * b[1]
    IN  IF d < 0 THEN Norm(-n, -d) ELSE Norm(n, d)

RNeg(a) == <<-a[1], a[2]>>

\* a + b; two infinities add to themselves when of one sign, to NaN otherwise
RAdd(a, b) ==
    IF IsNaN(a) \/ IsNaN(b) THEN NaN
    ELSE IF ~IsFinite(a) /\ ~IsFinite(b) THEN (IF a = b THEN a ELSE NaN)
    ELSE Norm(a[1] * b[2] + b[1] * a[2], a[2] * b[2])

RSub(a, b) == RAdd(a, RNeg(b))

\* a < b as the hardware compares: false whenever a NaN is involved
RLt(a, b) ==
    /\ ~IsNaN(a)
    /\ ~IsNaN(b)
    /\ IF IsFinite(a) /\ IsFinite(b) THEN a[1] * b[2] < b[1] * a[2]
       ELSE IF ~IsFinite(a) THEN a[1] < 0 /\ b # a
       ELSE b[1] > 0

RGt(a, b) == RLt(b, a)

RLe(a, b) == ~IsNaN(a) /\ ~IsNaN(b) /\ (a = b \/ RLt(a, b))

\* std::abs(double)
RAbs(a) == <<AbsInt(a[1]), a[2]>>

----------------------------------------------------------------------------
(* std::string *)

Slash == "/"

USD == <<"USD">>

EmptyString == <<>>

\* the order of the first character of each symbol ('/' < 'A' < ... < 'U')
SymbolRank(s) ==
    CASE s = "/" -> 47
      [] s = "A" -> 65
      [] s = "B" -> 66
      [] s = "C" -> 67
      [] s = "EUR" -> 69
      [] s = "INR" -> 73
      [] s = "JPY" -> 74
      [] s = "USD" -> 85
      [] OTHER -> 90

\* std::string operator< (lexicographic)
RECURSIVE StrLess(_, _)
StrLess(s, t) ==
    IF t = <<>> THEN FALSE
    ELSE IF s = <<>> THEN TRUE
    ELSE IF SymbolRank(Head(s)) # SymbolRank(Head(t))
         THEN SymbolRank(Head(s)) < SymbolRank(Head(t))
    ELSE StrLess(Tail(s), Tail(t))

\* std::string::find('/'): the first position holding the separator, 0 for npos
FindSlash(s) ==
    IF \E i \in 1..Len(s) : s[i] = Slash
    THEN CHOOSE i \in 1..Len(s) : s[i] = Slash /\ \A j \in 1..(i - 1) : s[j] # Slash
    ELSE 0

\* fromCurrency + "/" + toCurrency
PairCodeOf(from, to) == from \o <<Slash>> \o to

----------------------------------------------------------------------------
(* CurrencyPair *)

\* the full constructor: the fields as given, base and quote currency split
\* off the pair code at its first separator (both empty when it has none)
NewCurrencyPair(pairCode, price, dayChange, percentChange, weeklyChange, monthlyChange, ytdChange, yoyChange, group, timestamp) ==
    LET slashPos == FindSlash(pairCode) IN
    [ pairCode      |-> pairCode,
      baseCurrency  |-> IF slashPos # 0 THEN SubSeq(pairCode, 1, slashPos - 1)
                        ELSE EmptyString,
      quoteCurrency |-> IF slashPos # 0
                        THEN SubSeq(pairCode, slashPos + 1, Len(pairCode))
                        ELSE EmptyString,
      price         |-> price,
      dayChange     |-> dayChange,
      percentChange |-> percentChange,
      weeklyChange  |-> weeklyChange,
      monthlyChange |-> monthlyChange,
      ytdChange     |-> ytdChange,
      yoyChange     |-> yoyChange,
      group         |-> group,
      timestamp     |-> timestamp ]

getChangeByMetric(pair, metric) ==
    IF metric = "Percent Change" THEN pair.percentChange
    ELSE IF metric = "Weekly" THEN pair.weeklyChange
    ELSE IF metric = "Monthly" THEN pair.monthlyChange
    ELSE IF metric = "YTD" THEN pair.ytdChange
    ELSE IF metric = "YoY" THEN pair.yoyChange
    ELSE Zero

\* invertPercentage without its "- 1.0"
invertPercentageNoMinusOne(change) ==
    RMul(RDiv(One, RAdd(One, RDiv(change, Hundred))), Hundred)

\* the lambda of getInvertedPair: (1.0 / (1.0 + change / 100.0) - 1.0) * 100.0
invertPercentage(change) ==
    RMul(RSub(RDiv(One, RAdd(One, RDiv(change, Hundred))), One), Hundred)

\* the record getInvertedPair returns for pair: built by the full constructor,
\* which splits the new pair code at its first separator
InvertedPair(pair) ==
    NewCurrencyPair(pair.quoteCurrency \o <<Slash>> \o pair.baseCurrency,
                    RDiv(One, pair.price),
                    RDiv(RNeg(pair.dayChange), RMul(pair.price, pair.price)),
                    invertPercentage(pair.percentChange),
                    invertPercentage(pair.weeklyChange),
                    invertPercentage(pair.monthlyChange),
                    invertPercentage(pair.ytdChange),
                    invertPercentage(pair.yoyChange),
                    pair.group, pair.timestamp)

\* a record parsed from a file: the program now holds it in `result`
parseCurrencyPairFromJson(record) ==
    /\ result' = record
    /\ lastCall' = [op |-> "parseCurrencyPairFromJson"]
    /\ UNCHANGED <<currencyPairs, baseRates, derivedFrom, arbitrageOpps>>

\* getInvertedPair() const on the record held: the record it returns is held
\* next; `source` is the record it was called on, as the call leaves it
getInvertedPair ==
    /\ lastCall.op \in {"parseCurrencyPairFromJson", "setPairCode", "getInvertedPair"}
    /\ result' = InvertedPair(result)
    /\ lastCall' = [op |-> "getInvertedPair", source |-> result]
    /\ UNCHANGED <<currencyPairs, baseRates, derivedFrom, arbitrageOpps>>

\* the record setPairCode(code) leaves: the pair code replaced, base and quote
\* currency reassigned only when the code holds a separator
WithPairCode(pair, code) ==
    LET slashPos == FindSlash(code) IN
    [pair EXCEPT !.pairCode = code,
                 !.baseCurrency = IF slashPos # 0 THEN SubSeq(code, 1, slashPos - 1)
                                  ELSE pair.baseCurrency,
                 !.quoteCurrency = IF slashPos # 0
                                   THEN SubSeq(code, slashPos + 1, Len(code))
                                   ELSE pair.quoteCurrency]

\* setPairCode(code) on the record held
setPairCode(code) ==
    /\ lastCall.op \in {"parseCurrencyPairFromJson", "setPairCode", "getInvertedPair"}
    /\ result' = WithPairCode(result, code)
    /\ lastCall' = [op |-> "setPairCode", code |-> code]
    /\ UNCHANGED <<currencyPairs, baseRates, derivedFrom, arbitrageOpps>>

----------------------------------------------------------------------------
(* CurrencyAnalyzer::calculateBaseRates *)

\* std::unordered_map operator[] assignment: insert or overwrite
Put(t, k, v) == [x \in (DOMAIN t) \cup {k} |-> IF x = k THEN v ELSE t[x]]

EmptyTable == [x \in {} |-> Zero]

\* SeedStep storing the price of an X/USD quote instead of its reciprocal
SeedStepNoReciprocal(t, pair) ==
    IF pair.baseCurrency = USD THEN Put(t, pair.quoteCurrency, pair.price)
    ELSE IF pair.quoteCurrency = USD THEN Put(t, pair.baseCurrency, pair.price)
    ELSE t

\* one iteration of the first loop (direct USD rates)
SeedStep(t, pair) ==
    IF pair.baseCurrency = USD THEN Put(t, pair.quoteCurrency, pair.price)
    ELSE IF pair.quoteCurrency = USD
         THEN Put(t, pair.baseCurrency, RDiv(One, pair.price))
    ELSE t

RECURSIVE SeedLoop(_, _)
SeedLoop(t, pairs) ==
    IF pairs = <<>> THEN t ELSE SeedLoop(SeedStep(t, Head(pairs)), Tail(pairs))

\* calculateBaseRates without its baseRates.clear()
NotCleared(table) == table

\* baseRates.clear() on the table the engine holds
Cleared(table) == EmptyTable

\* SeedTable setting baseRates["USD"] = 1.0 before the first loop, not after
SeedTableUsdFirst(table, pairs) == SeedLoop(Put(Cleared(table), USD, One), pairs)

\* baseRates.clear(), the first loop, then baseRates["USD"] = 1.0
SeedTable(table, pairs) == Put(SeedLoop(Cleared(table), pairs), USD, One)

\* PropagateStep deriving quote currencies from base currencies only
PropagateStepForwardOnly(st, pair) ==
    LET t == st.table
        b == pair.baseCurrency
        q == pair.quoteCurrency
    IN  IF b \in DOMAIN t /\ q \notin DOMAIN t
        THEN [table |-> Put(t, q, RMul(t[b], pair.price)), ratesUpdated |-> TRUE]
        ELSE st

\* PropagateStep with "ratesUpdated = true" outside the two branches
PropagateStepAlwaysUpdated(st, pair) ==
    LET t == st.table
        b == pair.baseCurrency
        q == pair.quoteCurrency
    IN  IF b \in DOMAIN t /\ q \notin DOMAIN t
        THEN [table |-> Put(t, q, RMul(t[b], pair.price)), ratesUpdated |-> TRUE]
        ELSE IF q \in DOMAIN t /\ b \notin DOMAIN t
        THEN [table |-> Put(t, b, RDiv(t[q], pair.price)), ratesUpdated |-> TRUE]
        ELSE [table |-> t, ratesUpdated |-> TRUE]

\* PropagateStep without the "quote currency not yet known" test: a known base
\* currency sets the quote currency's entry again
PropagateStepOverwriting(st, pair) ==
    LET t == st.table
        b == pair.baseCurrency
        q == pair.quoteCurrency
    IN  IF b \in DOMAIN t
        THEN [table |-> Put(t, q, RMul(t[b], pair.price)),
              ratesUpdated |-> st.ratesUpdated \/ q \notin DOMAIN t]
        ELSE IF q \in DOMAIN t
        THEN [table |-> Put(t, b, RDiv(t[q], pair.price)), ratesUpdated |-> TRUE]
        ELSE st

\* one iteration of the for loop inside the while loop
PropagateStep(st, pair) ==
    LET t == st.table
        b == pair.baseCurrency
        q == pair.quoteCurrency
    IN  IF b \in DOMAIN t /\ q \notin DOMAIN t
        THEN [table |-> Put(t, q, RMul(t[b], pair.price)), ratesUpdated |-> TRUE]
        ELSE IF q \in DOMAIN t /\ b \notin DOMAIN t
        THEN [table |-> Put(t, b, RDiv(t[q], pair.price)), ratesUpdated |-> TRUE]
        ELSE st

RECURSIVE PropagatePass(_, _)
PropagatePass(st, pairs) ==
    IF pairs = <<>> THEN st
    ELSE PropagatePass(PropagateStep(st, Head(pairs)), Tail(pairs))

\* while (ratesUpdated) { ratesUpdated = false; for (pair : currencyPairs) ... }
RECURSIVE PropagateLoop(_, _)
PropagateLoop(t, pairs) ==
    LET st == PropagatePass([table |-> t, ratesUpdated |-> FALSE], pairs)
    IN  IF st.ratesUpdated THEN PropagateLoop(st.table, pairs) ELSE st.table

\* calculateBaseRates run on an engine holding `table` and the collection `pairs`
calculateBaseRates(table, pairs) == PropagateLoop(SeedTable(table, pairs), pairs)

----------------------------------------------------------------------------
(* calculateBaseRates, one loop iteration at a time *)

\* The position inside the propagation loop is kept in lastCall:
\* [op |-> "calculateBaseRates", pass, next, ratesUpdated], where pass counts
\* the passes of the while loop begun, next is the index of the quote the for
\* loop visits next and ratesUpdated is the flag of the code.

InPropagation == lastCall.op = "calculateBaseRates"

\* more passes than a collection of MaxQuotes quotes can cause
MaxPasses == MaxQuotes + 2

\* loadFromJson up to the first pass of the while loop: the collection is
\* replaced; when it is empty the load returns false, else the table is
\* cleared and seeded and the first pass begins
loadFromJsonBegin(parsed) ==
    /\ ~InPropagation
    /\ currencyPairs' = parsed
    /\ IF parsed = <<>>
       THEN /\ result' = FALSE
            /\ lastCall' = [op |-> "loadFromJson", passes |-> 0]
            /\ UNCHANGED <<baseRates, derivedFrom>>
       ELSE /\ baseRates' = SeedTable(baseRates, parsed)
            /\ derivedFrom' = parsed
            /\ lastCall' = [op |-> "calculateBaseRates", pass |-> 1, next |-> 1,
                            ratesUpdated |-> FALSE]
            /\ UNCHANGED result
    /\ UNCHANGED arbitrageOpps

\* one iteration of the for loop
propagateIteration ==
    /\ InPropagation
    /\ lastCall.next <= Len(currencyPairs)
    /\ LET st == PropagateStep([table |-> baseRates, ratesUpdated |-> lastCall.ratesUpdated],
                               currencyPairs[lastCall.next])
       IN  /\ baseRates' = st.table
           /\ lastCall' = [lastCall EXCEPT !.next = @ + 1,
                                           !.ratesUpdated = st.ratesUpdated]
    /\ UNCHANGED <<currencyPairs, derivedFrom, result, arbitrageOpps>>

\* the for loop is over and the while condition is tested: another pass with
\* ratesUpdated = false, or calculateBaseRates returns and the load returns true
propagatePassEnd ==
    /\ InPropagation
    /\ lastCall.next = Len(currencyPairs) + 1
    /\ IF lastCall.ratesUpdated
       THEN /\ lastCall.pass < MaxPasses
            /\ lastCall' = [lastCall EXCEPT !.pass = @ + 1, !.next = 1,
                                            !.ratesUpdated = FALSE]
            /\ UNCHANGED result
       ELSE /\ lastCall' = [op |-> "loadFromJson", passes |-> lastCall.pass]
            /\ result' = TRUE
    /\ UNCHANGED <<currencyPairs, baseRates, derivedFrom, arbitrageOpps>>

----------------------------------------------------------------------------
(* State *)

NoCall == [op |-> "none"]

Init ==
    /\ currencyPairs = <<>>
    /\ baseRates = EmptyTable
    /\ derivedFrom = <<>>
    /\ lastCall = NoCall
    /\ result = FALSE
    /\ arbitrageOpps = <<>>

\* loadFromJson / loadFromCsv on what the DataReader returned: the collection
\* is replaced first; the table is rebuilt only when the collection is not empty
Load(op, parsed) ==
    /\ currencyPairs' = parsed
    /\ IF parsed = <<>>
       THEN /\ result' = FALSE
            /\ UNCHANGED <<baseRates, derivedFrom>>
       ELSE /\ baseRates' = calculateBaseRates(baseRates, parsed)
            /\ derivedFrom' = parsed
            /\ result' = TRUE
    /\ lastCall' = [op |-> op]
    /\ UNCHANGED arbitrageOpps

loadFromJson(parsed) == Load("loadFromJson", parsed)

loadFromCsv(parsed) == Load("loadFromCsv", parsed)


----------------------------------------------------------------------------
(* Cross-rate resolver *)

\* the first quote of the collection whose pair code is `code`, 0 when none
FirstWithCode(pairs, code) ==
    IF \E i \in 1..Len(pairs) : pairs[i].pairCode = code
    THEN CHOOSE i \in 1..Len(pairs) :
            /\ pairs[i].pairCode = code
            /\ \A j \in 1..(i - 1) : pairs[j].pairCode # code
    ELSE 0

\* the single loop of calculateCrossCurrencyRate: the first quote whose pair
\* code is the direct or the inverse one, 0 when none
FirstDirectOrInverse(pairs, directPair, inversePair) ==
    IF \E i \in 1..Len(pairs) : pairs[i].pairCode \in {directPair, inversePair}
    THEN CHOOSE i \in 1..Len(pairs) :
            /\ pairs[i].pairCode \in {directPair, inversePair}
            /\ \A j \in 1..(i - 1) : pairs[j].pairCode \notin {directPair, inversePair}
    ELSE 0

\* CrossCurrencyRate reading the table with operator[] semantics: a missing
\* entry counts as 0.0 and the table test is skipped
CrossCurrencyRateDefaultZero(pairs, table, fromCurrency, toCurrency) ==
    LET at(c) == IF c \in DOMAIN table THEN table[c] ELSE Zero
    IN  RDiv(at(toCurrency), at(fromCurrency))

\* CrossCurrencyRate dividing the table entries the other way round
CrossCurrencyRateInverted(pairs, table, fromCurrency, toCurrency) ==
    IF fromCurrency \in DOMAIN table /\ toCurrency \in DOMAIN table
    THEN RDiv(table[fromCurrency], table[toCurrency])
    ELSE LET directPair  == PairCodeOf(fromCurrency, toCurrency)
             inversePair == PairCodeOf(toCurrency, fromCurrency)
             i == FirstDirectOrInverse(pairs, directPair, inversePair)
         IN  IF i = 0 THEN Zero
             ELSE IF pairs[i].pairCode = directPair THEN pairs[i].price
             ELSE RDiv(One, pairs[i].price)

\* CrossCurrencyRate looking for a quote before the table, as getExchangeRate
\* does
CrossCurrencyRateQuotesFirst(pairs, table, fromCurrency, toCurrency) ==
    LET directPair  == PairCodeOf(fromCurrency, toCurrency)
        inversePair == PairCodeOf(toCurrency, fromCurrency)
        i == FirstDirectOrInverse(pairs, directPair, inversePair)
    IN  IF i # 0
        THEN (IF pairs[i].pairCode = directPair THEN pairs[i].price
              ELSE RDiv(One, pairs[i].price))
        ELSE IF fromCurrency \in DOMAIN table /\ toCurrency \in DOMAIN table
        THEN RDiv(table[toCurrency], table[fromCurrency])
        ELSE Zero

\* calculateCrossCurrencyRate: the table when it knows both currencies, else
\* the first direct or inverse quote, else 0.0
CrossCurrencyRate(pairs, table, fromCurrency, toCurrency) ==
    IF fromCurrency \in DOMAIN table /\ toCurrency \in DOMAIN table
    THEN RDiv(table[toCurrency], table[fromCurrency])
    ELSE LET directPair  == PairCodeOf(fromCurrency, toCurrency)
             inversePair == PairCodeOf(toCurrency, fromCurrency)
             i == FirstDirectOrInverse(pairs, directPair, inversePair)
         IN  IF i = 0 THEN Zero
             ELSE IF pairs[i].pairCode = directPair THEN pairs[i].price
             ELSE RDiv(One, pairs[i].price)

\* ExchangeRate returning the inverse quote's price as it is
ExchangeRateInverseAsQuoted(pairs, table, fromCurrency, toCurrency) ==
    LET d == FirstWithCode(pairs, PairCodeOf(fromCurrency, toCurrency))
        v == FirstWithCode(pairs, PairCodeOf(toCurrency, fromCurrency))
    IN  IF d # 0 THEN pairs[d].price
        ELSE IF v # 0 THEN pairs[v].price
        ELSE CrossCurrencyRate(pairs, table, fromCurrency, toCurrency)

\* getExchangeRate: the direct quote, else the inverse quote, else
\* calculateCrossCurrencyRate
ExchangeRate(pairs, table, fromCurrency, toCurrency) ==
    LET d == FirstWithCode(pairs, PairCodeOf(fromCurrency, toCurrency))
        v == FirstWithCode(pairs, PairCodeOf(toCurrency, fromCurrency))
    IN  IF d # 0 THEN pairs[d].price
        ELSE IF v # 0 THEN RDiv(One, pairs[v].price)
        ELSE CrossCurrencyRate(pairs, table, fromCurrency, toCurrency)

\* TableAfterCrossRate for a table branch that reads baseRates[toCurrency] and
\* baseRates[fromCurrency] without the two find() tests: operator[] inserts
\* 0.0 for a missing key
TableAfterCrossRateSubscript(table, fromCurrency, toCurrency) ==
    LET withTo == IF toCurrency \in DOMAIN table THEN table
                  ELSE Put(table, toCurrency, Zero)
    IN  IF fromCurrency \in DOMAIN withTo THEN withTo
        ELSE Put(withTo, fromCurrency, Zero)

\* the table calculateCrossCurrencyRate leaves: find() inserts nothing and
\* operator[] is applied only to keys find() has found
TableAfterCrossRate(table, fromCurrency, toCurrency) == table

getExchangeRate(fromCurrency, toCurrency) ==
    /\ result' = ExchangeRate(currencyPairs, baseRates, fromCurrency, toCurrency)
    /\ lastCall' = [op |-> "getExchangeRate", from |-> fromCurrency, to |-> toCurrency]
    /\ baseRates' =
          IF FirstWithCode(currencyPairs, PairCodeOf(fromCurrency, toCurrency)) # 0
             \/ FirstWithCode(currencyPairs, PairCodeOf(toCurrency, fromCurrency)) # 0
          THEN baseRates
          ELSE TableAfterCrossRate(baseRates, fromCurrency, toCurrency)
    /\ UNCHANGED <<currencyPairs, derivedFrom, arbitrageOpps>>

calculateCrossCurrencyRate(fromCurrency, toCurrency) ==
    /\ result' = CrossCurrencyRate(currencyPairs, baseRates, fromCurrency, toCurrency)
    /\ lastCall' = [op |-> "calculateCrossCurrencyRate",
                    from |-> fromCurrency, to |-> toCurrency]
    /\ baseRates' = TableAfterCrossRate(baseRates, fromCurrency, toCurrency)
    /\ UNCHANGED <<currencyPairs, derivedFrom, arbitrageOpps>>

----------------------------------------------------------------------------
(* Currency and pair listings *)

CurrencySet(pairs) ==
    {pairs[i].baseCurrency : i \in 1..Len(pairs)}
        \cup {pairs[i].quoteCurrency : i \in 1..Len(pairs)}

\* the elements of a std::set<std::string> in iteration (ascending) order
RECURSIVE Ascending(_)
Ascending(S) ==
    IF S = {} THEN <<>>
    ELSE LET m == CHOOSE x \in S : \A y \in S \ {x} : StrLess(x, y)
         IN  <<m>> \o Ascending(S \ {m})

AvailableCurrencies(pairs) == Ascending(CurrencySet(pairs))

getAvailableCurrencies ==
    /\ result' = AvailableCurrencies(currencyPairs)
    /\ lastCall' = [op |-> "getAvailableCurrencies"]
    /\ UNCHANGED <<currencyPairs, baseRates, derivedFrom, arbitrageOpps>>

AvailableCurrencyPairs(pairs) == [i \in 1..Len(pairs) |-> pairs[i].pairCode]

getAvailableCurrencyPairs ==
    /\ result' = AvailableCurrencyPairs(currencyPairs)
    /\ lastCall' = [op |-> "getAvailableCurrencyPairs"]
    /\ UNCHANGED <<currencyPairs, baseRates, derivedFrom, arbitrageOpps>>


----------------------------------------------------------------------------
(* Performance ranker *)

TopBefore(metric, a, b) ==
    RGt(getChangeByMetric(a, metric), getChangeByMetric(b, metric))

\* WorstBefore comparing as TopBefore does: the worst list ordered descending
WorstBeforeDescending(metric, a, b) ==
    RGt(getChangeByMetric(a, metric), getChangeByMetric(b, metric))

WorstBefore(metric, a, b) ==
    RLt(getChangeByMetric(a, metric), getChangeByMetric(b, metric))

\* the comparator handed to std::sort
Before(descending, metric, a, b) ==
    IF descending THEN TopBefore(metric, a, b) ELSE WorstBefore(metric, a, b)

\* the orders std::sort may leave a copy of the collection in under that
\* comparator: every permutation in which no element is Before one that
\* precedes it (the order among equivalent elements is unspecified)
SortedOrders(pairs, descending, metric) ==
    LET n == Len(pairs)
        Perms == {f \in [1..n -> 1..n] : \A i, j \in 1..n : i # j => f[i] # f[j]}
    IN  {[i \in 1..n |-> pairs[f[i]]] : f \in
            {g \in Perms : \A i, j \in 1..n :
                i < j => ~Before(descending, metric, pairs[g[j]], pairs[g[i]])}}

\* std::min(count, static_cast<int>(sortedPairs.size()))
ResultCount(count, size) == IF count < size THEN count ELSE size

\* what std::vector(begin, begin + resultCount) does when resultCount < 0 (an
\* invalid iterator range, undefined behaviour): the range's length wraps to a
\* huge size_t and the allocation throws
InvalidRangeOutcomes == {"std::length_error", "std::bad_alloc"}

\* std::vector<CurrencyPair>(sortedPairs.begin(), sortedPairs.begin() + resultCount)
FirstN(sortedPairs, resultCount) ==
    IF resultCount >= 0
    THEN {[threw |-> "nothing", value |-> SubSeq(sortedPairs, 1, resultCount)]}
    ELSE {[threw |-> e, value |-> <<>>] : e \in InvalidRangeOutcomes}

TopPerformers(pairs, metric, count) ==
    UNION {FirstN(sortedPairs, ResultCount(count, Len(pairs))) :
              sortedPairs \in SortedOrders(pairs, TRUE, metric)}

WorstPerformers(pairs, metric, count) ==
    UNION {FirstN(sortedPairs, ResultCount(count, Len(pairs))) :
              sortedPairs \in SortedOrders(pairs, FALSE, metric)}

getTopPerformers(metric, count) ==
    /\ result' \in TopPerformers(currencyPairs, metric, count)
    /\ lastCall' = [op |-> "getTopPerformers", metric |-> metric, count |-> count]
    /\ UNCHANGED <<currencyPairs, baseRates, derivedFrom, arbitrageOpps>>

getWorstPerformers(metric, count) ==
    /\ result' \in WorstPerformers(currencyPairs, metric, count)
    /\ lastCall' = [op |-> "getWorstPerformers", metric |-> metric, count |-> count]
    /\ UNCHANGED <<currencyPairs, baseRates, derivedFrom, arbitrageOpps>>

----------------------------------------------------------------------------
(* Formatting *)

RECURSIVE Pow10(_)
Pow10(k) == IF k = 0 THEN 1 ELSE 10 * Pow10(k - 1)

\* operator<< with std::fixed << std::setprecision(k), and std::to_string
\* (k = 6): the value rounded to k decimals, as sign, integer part and the k
\* decimals
Fixed(a, k) ==
    IF IsNaN(a) THEN [text |-> "nan"]
    ELSE IF ~IsFinite(a) THEN [text |-> IF a[1] > 0 THEN "inf" ELSE "-inf"]
    ELSE LET m      == AbsInt(a[1])
             scaled == (m % a[2]) * Pow10(k)
             f0     == scaled \div a[2]
             r2     == 2 * (scaled % a[2])
             f      == IF r2 > a[2] \/ (r2 = a[2] /\ f0 % 2 = 1) THEN f0 + 1 ELSE f0
         IN  [negative |-> a[1] < 0,
              int      |-> (m \div a[2]) + (f \div Pow10(k)),
              decimals |-> f % Pow10(k),
              digits   |-> k]

----------------------------------------------------------------------------
(* Movement and arbitrage detector *)

\* profit > 1.0 with profit = (rateAB * rateBC * rateCA - 1.0) * 100
ArbitrageThreshold == One

\* Profit without the "- 1.0"
ProfitOfProduct(rateAB, rateBC, rateCA) ==
    RMul(RMul(RMul(rateAB, rateBC), rateCA), Hundred)

Profit(rateAB, rateBC, rateCA) ==
    RMul(RSub(RMul(RMul(rateAB, rateBC), rateCA), One), Hundred)

\* TripleOpportunity without the "if (rate <= 0) continue"
TripleOpportunityNoSkip(pairs, table, currA, currB, currC) ==
    LET rateAB == CrossCurrencyRate(pairs, table, currA, currB)
        rateBC == CrossCurrencyRate(pairs, table, currB, currC)
        rateCA == CrossCurrencyRate(pairs, table, currC, currA)
        profit == Profit(rateAB, rateBC, rateCA)
    IN  IF RGt(profit, ArbitrageThreshold)
        THEN << [path |-> <<currA, currB, currC, currA>>, profit |-> profit] >>
        ELSE <<>>

\* the body of the innermost loop for currA, currB, currC: the opportunity it
\* pushes, if any
TripleOpportunity(pairs, table, currA, currB, currC) ==
    LET rateAB == CrossCurrencyRate(pairs, table, currA, currB)
        rateBC == CrossCurrencyRate(pairs, table, currB, currC)
        rateCA == CrossCurrencyRate(pairs, table, currC, currA)
        profit == Profit(rateAB, rateBC, rateCA)
    IN  IF RLe(rateAB, Zero) \/ RLe(rateBC, Zero) \/ RLe(rateCA, Zero) THEN <<>>
        ELSE IF RGt(profit, ArbitrageThreshold)
             THEN << [path |-> <<currA, currB, currC, currA>>, profit |-> profit] >>
        ELSE <<>>

\* the three nested loops, each over the whole of getAvailableCurrencies() in
\* its order (i, j, k: the position each loop has reached)
RECURSIVE ScanC(_, _, _, _, _, _)
ScanC(pairs, table, currencies, currA, currB, k) ==
    IF k > Len(currencies) THEN <<>>
    ELSE (IF currA = currencies[k] \/ currB = currencies[k] THEN <<>>
          ELSE TripleOpportunity(pairs, table, currA, currB, currencies[k]))
         \o ScanC(pairs, table, currencies, currA, currB, k + 1)

RECURSIVE ScanB(_, _, _, _, _)
ScanB(pairs, table, currencies, currA, j) ==
    IF j > Len(currencies) THEN <<>>
    ELSE (IF currA = currencies[j] THEN <<>>
          ELSE ScanC(pairs, table, currencies, currA, currencies[j], 1))
         \o ScanB(pairs, table, currencies, currA, j + 1)

RECURSIVE ScanA(_, _, _, _)
ScanA(pairs, table, currencies, i) ==
    IF i > Len(currencies) THEN <<>>
    ELSE ScanB(pairs, table, currencies, currencies[i], 1)
         \o ScanA(pairs, table, currencies, i + 1)

findArbitrageOpportunities(pairs, table) ==
    ScanA(pairs, table, AvailableCurrencies(pairs), 1)

\* double movementThreshold = 0.5, in percent; nothing assigns it
movementThreshold == R(1, 2)

\* MovementFinding reporting a change that equals the threshold as well
MovementFindingAtThreshold(pair) ==
    IF ~RLt(RAbs(pair.percentChange), movementThreshold)
    THEN << <<pair.pairCode, ": ",
              IF RGt(pair.percentChange, Zero) THEN "UP " ELSE "DOWN ",
              Fixed(RAbs(pair.percentChange), 2), "% ", "to ",
              Fixed(pair.price, 4)>> >>
    ELSE <<>>

\* the body of the loop of detectSignificantMovements for one quote: the
\* string it pushes, if any, as the sequence of the pieces streamed into it
MovementFinding(pair) ==
    IF RGt(RAbs(pair.percentChange), movementThreshold)
    THEN << <<pair.pairCode, ": ",
              IF RGt(pair.percentChange, Zero) THEN "UP " ELSE "DOWN ",
              Fixed(RAbs(pair.percentChange), 2), "% ", "to ",
              Fixed(pair.price, 4)>> >>
    ELSE <<>>

RECURSIVE MovementLoop(_)
MovementLoop(pairs) ==
    IF pairs = <<>> THEN <<>>
    ELSE MovementFinding(Head(pairs)) \o MovementLoop(Tail(pairs))

detectSignificantMovements ==
    /\ result' = MovementLoop(currencyPairs)
    /\ lastCall' = [op |-> "detectSignificantMovements"]
    /\ UNCHANGED <<currencyPairs, baseRates, derivedFrom, arbitrageOpps>>

\* the findings of the first loop of identifyTradingOpportunities for one quote
VolatilityFindings(pair) ==
    (IF RGt(RAbs(pair.percentChange), One)
     THEN << <<"High Volatility: ", pair.pairCode, " moved ",
               Fixed(RAbs(pair.percentChange), 2), "% today">> >>
     ELSE <<>>)
    \o
    (IF RLt(RMul(pair.percentChange, pair.weeklyChange), Zero)
        /\ RGt(RAbs(pair.percentChange), R(1, 2))
     THEN << <<"Potential Reversal: ", pair.pairCode, " is ",
               IF RGt(pair.percentChange, Zero) THEN "up" ELSE "down", " ",
               Fixed(RAbs(pair.percentChange), 2), "% today, but ",
               IF RGt(pair.weeklyChange, Zero) THEN "up" ELSE "down", " ",
               Fixed(RAbs(pair.weeklyChange), 2), "% this week">> >>
     ELSE <<>>)

RECURSIVE VolatilityLoop(_)
VolatilityLoop(pairs) ==
    IF pairs = <<>> THEN <<>>
    ELSE VolatilityFindings(Head(pairs)) \o VolatilityLoop(Tail(pairs))

ArbitrageFinding(opp) ==
    <<"Arbitrage Opportunity: ", opp.path, " (", Fixed(opp.profit, 6), "% potential)">>

identifyTradingOpportunities ==
    LET opps == findArbitrageOpportunities(currencyPairs, baseRates) IN
    /\ arbitrageOpps' = opps
    /\ result' = VolatilityLoop(currencyPairs)
                    \o [i \in 1..Len(opps) |-> ArbitrageFinding(opps[i])]
    /\ lastCall' = [op |-> "identifyTradingOpportunities"]
    /\ UNCHANGED <<currencyPairs, baseRates, derivedFrom>>


----------------------------------------------------------------------------
(* Inputs *)

\* a record as DataReader parses it when only the pair code and the price are
\* given: every other number defaults to 0.0, every other string to ""
Quote(pairCode, price) ==
    NewCurrencyPair(pairCode, price, Zero, Zero, Zero, Zero, Zero, Zero, "", "")

\* a record with its day and week percent changes given as well
QuoteWithChanges(pairCode, price, percentChange, weeklyChange) ==
    NewCurrencyPair(pairCode, price, Zero, percentChange, weeklyChange,
                    Zero, Zero, Zero, "", "")

Code(base, quote) == PairCodeOf(<<base>>, <<quote>>)

\* records for the rate table and the resolver: USD quoted both ways and
\* twice, a zero price, a USD/USD record, a cross pair quoted both ways, a
\* pair code without separator and one without quote currency
RateQuotes ==
    { Quote(Code("USD", "A"), R(2, 1)),
      Quote(Code("USD", "A"), R(3, 1)),
      Quote(Code("A", "USD"), R(2, 1)),
      Quote(Code("A", "USD"), R(0, 1)),
      Quote(Code("USD", "B"), R(3, 1)),
      Quote(Code("USD", "USD"), R(3, 1)),
      Quote(Code("A", "B"), R(2, 1)),
      Quote(Code("B", "A"), R(3, 1)),
      Quote(<<"A">>, R(2, 1)),
      Quote(<<"USD", "/">>, R(2, 1)) }

\* the currencies asked of the resolver
QueryCurrencies == {USD, <<"A">>, <<"B">>}

\* records for the arbitrage scan: a triangle away from USD (product 1.2, 0.9
\* or exactly 1.01), two of its legs with negative prices, and two USD quotes
ArbitrageQuotes ==
    { Quote(Code("A", "B"), R(2, 1)),
      Quote(Code("B", "C"), R(3, 1)),
      Quote(Code("C", "A"), R(1, 5)),
      Quote(Code("C", "A"), R(3, 20)),
      Quote(Code("C", "A"), R(101, 600)),
      Quote(Code("A", "B"), R(-2, 1)),
      Quote(Code("B", "C"), R(-3, 1)),
      Quote(Code("USD", "A"), R(2, 1)),
      Quote(Code("USD", "B"), R(3, 1)) }

\* records for the ranker: equal and different day and week changes
RankingQuotes ==
    { QuoteWithChanges(Code("USD", "A"), R(2, 1), R(2, 1), R(-1, 1)),
      QuoteWithChanges(Code("USD", "B"), R(3, 1), R(2, 1), R(1, 1)),
      QuoteWithChanges(Code("A", "B"), R(2, 1), R(-1, 1), R(1, 1)) }

Metrics == {"Percent Change", "Weekly", "Volume"}

Counts == (-1)..MaxCount

\* what the DataReader may return on a load: nothing (the file is missing,
\* unreadable or holds no record), the records loaded last (the file is
\* unchanged), or those and one more record appended to the file
Readable(quotes) ==
    {<<>>, currencyPairs}
        \cup (IF Len(currencyPairs) < MaxQuotes
              THEN {Append(currencyPairs, q) : q \in quotes}
              ELSE {})

\* the quotes of the worked example (USD/INR = 83, EUR/USD = 1.10,
\* USD/JPY = 150), a second USD/INR, and two cross pairs
ExampleQuotes ==
    { Quote(Code("USD", "INR"), R(83, 1)),
      Quote(Code("EUR", "USD"), R(11, 10)),
      Quote(Code("USD", "JPY"), R(150, 1)),
      Quote(Code("USD", "INR"), R(84, 1)),
      Quote(Code("EUR", "INR"), R(90, 1)),
      Quote(Code("INR", "JPY"), R(2, 1)) }

ExampleCurrencies == {USD, <<"INR">>, <<"EUR">>, <<"JPY">>}

\* records for the movement detector: day changes at the threshold on either
\* side of zero, above it in both directions, below it, and none
MovementQuotes ==
    { QuoteWithChanges(Code("USD", "A"), R(2, 1), R(1, 2), Zero),
      QuoteWithChanges(Code("USD", "B"), R(3, 1), R(-1, 2), Zero),
      QuoteWithChanges(Code("A", "B"), R(1, 3), R(3, 5), Zero),
      QuoteWithChanges(Code("B", "A"), R(3, 1), R(-3, 4), Zero),
      QuoteWithChanges(Code("USD", "A"), R(2, 1), Zero, Zero),
      QuoteWithChanges(Code("A", "USD"), R(1, 2), R(2, 5), Zero) }

\* fields of the records handed to getInvertedPair: pair codes with one
\* separator, with none, with two, and with an empty quote currency; prices
\* above and below 1 and zero; percent changes including -100
RecordCodes ==
    { Code("A", "B"), Code("USD", "A"), <<"A">>,
      <<"A", "/", "B", "/", "C">>, <<"USD", "/">> }

RecordPrices == {R(2, 1), R(1, 2), Zero}

RecordDayChanges == {Zero, R(1, 4)}

RecordPercents == {Zero, R(5, 1), R(-100, 1)}

RecordGroups == {"", "Major"}

Records ==
    { NewCurrencyPair(pairCode, price, dayChange, percentChange, weeklyChange,
                      Zero, R(-1, 1), R(5, 1), group, "09:30")
        : pairCode \in RecordCodes, price \in RecordPrices,
          dayChange \in RecordDayChanges, percentChange \in RecordPercents,
          weeklyChange \in {Zero, R(-3, 1)}, group \in RecordGroups }

\* pair codes given to the constructor and to setPairCode: those of
\* RecordCodes, one with an empty base currency and a self-pair
PairCodes == RecordCodes \cup {<<"/", "A">>, Code("USD", "USD")}

CodedRecords ==
    {Quote(pairCode, price) : pairCode \in PairCodes, price \in RecordPrices}

\* records for the propagation loop: a chain USD - A - B - C, the pair A/B
\* quoted both ways (a cycle), a self-pair and a pair code without separator
PropagationQuotes ==
    { Quote(Code("USD", "A"), R(2, 1)),
      Quote(Code("A", "B"), R(2, 1)),
      Quote(Code("B", "A"), R(3, 1)),
      Quote(Code("B", "C"), R(3, 1)),
      Quote(Code("A", "A"), R(2, 1)),
      Quote(<<"A">>, R(2, 1)) }

\* records and arguments for running every query on one engine
QueryQuotes ==
    { QuoteWithChanges(Code("USD", "A"), R(2, 1), R(2, 1), R(-1, 1)),
      QuoteWithChanges(Code("A", "B"), R(2, 1), R(-1, 1), R(1, 1)),
      QuoteWithChanges(Code("B", "C"), R(3, 1), R(2, 1), Zero) }

QueryMetrics == {"Percent Change"}

QueryCounts == {-1, 1, MaxCount}

AskedCurrencies == {USD, <<"B">>, <<"C">>}

\* records for asking calculateCrossCurrencyRate both ways: those of
\* PropagationQuotes and a quote with price zero
CrossQuotes == PropagationQuotes \cup {Quote(Code("B", "C"), Zero)}

CrossCurrencies == {USD, <<"A">>, <<"B">>, <<"C">>}

----------------------------------------------------------------------------
(* Specifications *)

\* the rate table and the resolver
Next ==
    \/ \E parsed \in Readable(RateQuotes) : loadFromJson(parsed)
    \/ \E parsed \in Readable(RateQuotes) : loadFromCsv(parsed)
    \/ \E from, to \in QueryCurrencies : getExchangeRate(from, to)
    \/ \E from, to \in QueryCurrencies : calculateCrossCurrencyRate(from, to)

Spec == Init /\ [][Next]_vars

\* the arbitrage scan
NextArbitrage ==
    \/ \E parsed \in Readable(ArbitrageQuotes) : loadFromJson(parsed)
    \/ \E parsed \in Readable(ArbitrageQuotes) : loadFromCsv(parsed)
    \/ getAvailableCurrencies
    \/ identifyTradingOpportunities

SpecArbitrage == Init /\ [][NextArbitrage]_vars

\* the ranker
NextRanking ==
    \/ \E parsed \in Readable(RankingQuotes) : loadFromJson(parsed)
    \/ \E parsed \in Readable(RankingQuotes) : loadFromCsv(parsed)
    \/ \E metric \in Metrics, count \in Counts : getTopPerformers(metric, count)
    \/ \E metric \in Metrics, count \in Counts : getWorstPerformers(metric, count)
    \/ getAvailableCurrencyPairs

SpecRanking == Init /\ [][NextRanking]_vars


\* the resolver on the quotes of the worked example
NextExample ==
    \/ \E parsed \in Readable(ExampleQuotes) : loadFromJson(parsed)
    \/ \E parsed \in Readable(ExampleQuotes) : loadFromCsv(parsed)
    \/ \E from, to \in ExampleCurrencies : getExchangeRate(from, to)
    \/ \E from, to \in ExampleCurrencies : calculateCrossCurrencyRate(from, to)

SpecExample == Init /\ [][NextExample]_vars

\* the movement detector
NextMovements ==
    \/ \E parsed \in Readable(MovementQuotes) : loadFromJson(parsed)
    \/ \E parsed \in Readable(MovementQuotes) : loadFromCsv(parsed)
    \/ detectSignificantMovements

SpecMovements == Init /\ [][NextMovements]_vars

\* one quote record and its inversions
NextRecord ==
    \/ \E record \in Records : parseCurrencyPairFromJson(record)
    \/ getInvertedPair

SpecRecord == Init /\ [][NextRecord]_vars

\* one quote record, its pair code set anew and inverted
NextPairCode ==
    \/ \E record \in CodedRecords : parseCurrencyPairFromJson(record)
    \/ \E code \in PairCodes : setPairCode(code)
    \/ getInvertedPair

SpecPairCode == Init /\ [][NextPairCode]_vars

\* loads with the propagation loop of calculateBaseRates run step by step
NextPropagation ==
    \/ \E parsed \in Readable(PropagationQuotes) : loadFromJsonBegin(parsed)
    \/ propagateIteration
    \/ propagatePassEnd

SpecPropagation == Init /\ [][NextPropagation]_vars

\* the loop, once entered, keeps executing
SpecPropagationFair ==
    SpecPropagation /\ WF_vars(propagateIteration) /\ WF_vars(propagatePassEnd)

\* every query of the engine
NextQueries ==
    \/ \E parsed \in Readable(QueryQuotes) : loadFromJson(parsed)
    \/ \E parsed \in Readable(QueryQuotes) : loadFromCsv(parsed)
    \/ \E from, to \in AskedCurrencies : getExchangeRate(from, to)
    \/ \E from, to \in AskedCurrencies : calculateCrossCurrencyRate(from, to)
    \/ \E metric \in QueryMetrics, count \in QueryCounts : getTopPerformers(metric, count)
    \/ \E metric \in QueryMetrics, count \in QueryCounts : getWorstPerformers(metric, count)
    \/ getAvailableCurrencies
    \/ getAvailableCurrencyPairs
    \/ detectSignificantMovements
    \/ identifyTradingOpportunities

SpecQueries == Init /\ [][NextQueries]_vars

\* calculateCrossCurrencyRate on collections with cycles and self-pairs
NextCross ==
    \/ \E parsed \in Readable(CrossQuotes) : loadFromJson(parsed)
    \/ \E parsed \in Readable(CrossQuotes) : loadFromCsv(parsed)
    \/ \E from, to \in CrossCurrencies : calculateCrossCurrencyRate(from, to)

SpecCross == Init /\ [][NextCross]_vars

----------------------------------------------------------------------------
(* Claims C1 - C10 *)

IsRateCall == lastCall.op \in {"getExchangeRate", "calculateCrossCurrencyRate"}

Quoted(pairs, code) == {i \in 1..Len(pairs) : pairs[i].pairCode = code}

TableIsCurrent == currencyPairs # <<>> /\ derivedFrom = currencyPairs

\* C1: whatever resolver entry point answered (getExchangeRate or
\* calculateCrossCurrencyRate), a quote from/to in the collection decides the
\* result (its price), else a quote to/from does (its reciprocal); the table is
\* used only when neither is quoted.
C1_QuotedRateOverridesTable ==
    IsRateCall =>
        LET direct  == Quoted(currencyPairs, PairCodeOf(lastCall.from, lastCall.to))
            inverse == Quoted(currencyPairs, PairCodeOf(lastCall.to, lastCall.from))
        IN  /\ direct # {} =>
                \E i \in direct : result = currencyPairs[i].price
            /\ (direct = {} /\ inverse # {}) =>
                \E i \in inverse : result = RDiv(One, currencyPairs[i].price)

\* C2: in every state the table is the one derived from the collection the
\* queries see: never the table of one dataset beside the collection of another.
C2_TableNeverFromAnotherDataset == derivedFrom = currencyPairs

\* the table entry a quote paired with USD seeds: <<currency, value>>
UsdSeed(pair) ==
    IF pair.baseCurrency = USD THEN <<pair.quoteCurrency, pair.price>>
    ELSE <<pair.baseCurrency, RDiv(One, pair.price)>>

PairedWithUsd(pair) == pair.baseCurrency = USD \/ pair.quoteCurrency = USD

\* C3 as stated: after calculateBaseRates, every quote USD/X has
\* table[X] = price and every quote X/USD has table[X] = 1/price.
C3_EveryUsdQuoteIsInTable ==
    TableIsCurrent =>
        \A i \in 1..Len(currencyPairs) :
            LET pair == currencyPairs[i] IN
            /\ pair.baseCurrency = USD =>
                /\ pair.quoteCurrency \in DOMAIN baseRates
                /\ baseRates[pair.quoteCurrency] = pair.price
            /\ pair.quoteCurrency = USD =>
                /\ pair.baseCurrency \in DOMAIN baseRates
                /\ baseRates[pair.baseCurrency] = RDiv(One, pair.price)

\* C3 amended: after calculateBaseRates, for every currency X other than USD
\* the table entry of X is the one given by the last quote of the collection
\* that pairs X with USD: its price if it is USD/X, 1/price if it is X/USD.
C3_LastUsdQuoteIsInTable ==
    TableIsCurrent =>
        \A i \in 1..Len(currencyPairs) :
            LET pair == currencyPairs[i] IN
            ( /\ PairedWithUsd(pair)
              /\ UsdSeed(pair)[1] # USD
              /\ \A j \in (i + 1)..Len(currencyPairs) :
                    ~(/\ PairedWithUsd(currencyPairs[j])
                      /\ UsdSeed(currencyPairs[j])[1] = UsdSeed(pair)[1]) )
            => /\ UsdSeed(pair)[1] \in DOMAIN baseRates
               /\ baseRates[UsdSeed(pair)[1]] = UsdSeed(pair)[2]

\* C3 witness: a table built from a collection in which two quotes give the
\* same currency different USD rates, and the later one is in the table.
C3_Witness ==
    /\ TableIsCurrent
    /\ \E i, j \in 1..Len(currencyPairs) :
            /\ i < j
            /\ PairedWithUsd(currencyPairs[i])
            /\ PairedWithUsd(currencyPairs[j])
            /\ UsdSeed(currencyPairs[i])[1] = UsdSeed(currencyPairs[j])[1]
            /\ UsdSeed(currencyPairs[i])[1] # USD
            /\ UsdSeed(currencyPairs[i])[2] # UsdSeed(currencyPairs[j])[2]
            /\ currencyPairs[i].baseCurrency # currencyPairs[j].baseCurrency
            /\ baseRates[UsdSeed(currencyPairs[j])[1]] = UsdSeed(currencyPairs[j])[2]

\* C4: once calculateBaseRates has run, and in every state after it (loads that
\* succeed or fail, queries), the table maps USD to exactly 1.
C4_UsdIsOne ==
    derivedFrom # <<>> => (USD \in DOMAIN baseRates /\ baseRates[USD] = One)

\* C4 witness: after a reload that found nothing, the table built from a
\* collection that quotes USD/USD at a price other than 1.
C4_Witness ==
    /\ \E i \in 1..Len(derivedFrom) :
            /\ derivedFrom[i].pairCode = PairCodeOf(USD, USD)
            /\ derivedFrom[i].price # One
    /\ currencyPairs = <<>>
    /\ lastCall.op = "loadFromJson"
    /\ baseRates[USD] = One

\* the currencies one quote away from a currency of S, in either direction
Neighbours(S, pairs) ==
    {pairs[i].quoteCurrency : i \in {k \in 1..Len(pairs) : pairs[k].baseCurrency \in S}}
        \cup
    {pairs[i].baseCurrency : i \in {k \in 1..Len(pairs) : pairs[k].quoteCurrency \in S}}

RECURSIVE Connected(_, _)
Connected(S, pairs) ==
    IF Neighbours(S, pairs) \subseteq S THEN S
    ELSE Connected(S \cup Neighbours(S, pairs), pairs)

\* C5: the currencies with a table entry are exactly USD and the currencies
\* joined to USD by a chain of quotes, each usable in either direction.
C5_TableIsUsdComponent ==
    derivedFrom # <<>> => DOMAIN baseRates = Connected({USD}, derivedFrom)

\* C5 witness: a table with a currency that only a chain joins to USD, built
\* from a collection holding a currency that nothing joins to USD.
C5_Witness ==
    /\ TableIsCurrent
    /\ CurrencySet(currencyPairs) \ DOMAIN baseRates # {}
    /\ \E c \in DOMAIN baseRates :
            /\ c # USD
            /\ \A i \in 1..Len(currencyPairs) :
                    ~(PairedWithUsd(currencyPairs[i]) /\ UsdSeed(currencyPairs[i])[1] = c)

IsExchangeRateOf(call, from, to) ==
    call.op = "getExchangeRate" /\ call.from = from /\ call.to = to

PositivePrice(pairs, code) ==
    \E i \in Quoted(pairs, code) : RGt(pairs[i].price, Zero)

\* C6 as stated: getExchangeRate(A,B) x getExchangeRate(B,A) = 1 whenever the
\* collection holds a quote A/B or B/A with positive price (two calls in a row
\* on the same collection).
C6_ReciprocalWheneverQuoted ==
    [][ \A A, B \in QueryCurrencies :
            ( /\ IsExchangeRateOf(lastCall, A, B)
              /\ IsExchangeRateOf(lastCall', B, A)
              /\ \/ PositivePrice(currencyPairs, PairCodeOf(A, B))
                 \/ PositivePrice(currencyPairs, PairCodeOf(B, A)) )
            => RMul(result, result') = One ]_vars

\* the first quote of the collection with one of the two pair codes has a
\* positive price
FirstIsPositive(pairs, A, B) ==
    LET i == FirstDirectOrInverse(pairs, PairCodeOf(A, B), PairCodeOf(B, A))
    IN  i # 0 /\ RGt(pairs[i].price, Zero)

OneDirectionQuoted(pairs, A, B) ==
    (Quoted(pairs, PairCodeOf(A, B)) = {}) # (Quoted(pairs, PairCodeOf(B, A)) = {})

\* C6 amended: getExchangeRate(A,B) x getExchangeRate(B,A) = 1 whenever the
\* collection quotes exactly one of the two directions A/B, B/A and the first
\* quote of that direction has a positive price.
C6_ReciprocalWhenOneDirectionQuoted ==
    [][ \A A, B \in QueryCurrencies :
            ( /\ IsExchangeRateOf(lastCall, A, B)
              /\ IsExchangeRateOf(lastCall', B, A)
              /\ OneDirectionQuoted(currencyPairs, A, B)
              /\ FirstIsPositive(currencyPairs, A, B) )
            => RMul(result, result') = One ]_vars

\* C6 witness: getExchangeRate answered from the reciprocal of a quote that is
\* repeated at another price, the other direction not being quoted.
C6_Witness ==
    \E A, B \in QueryCurrencies :
        /\ IsExchangeRateOf(lastCall, A, B)
        /\ OneDirectionQuoted(currencyPairs, A, B)
        /\ FirstIsPositive(currencyPairs, A, B)
        /\ Cardinality(Quoted(currencyPairs, PairCodeOf(B, A))) > 1
        /\ result # One
        /\ result = RDiv(One, currencyPairs[FirstWithCode(currencyPairs, PairCodeOf(B, A))].price)


ScanHasRun == lastCall.op = "identifyTradingOpportunities"

\* the ordered triples of pairwise distinct currencies of the collection
Triples(pairs) ==
    {t \in CurrencySet(pairs) \X CurrencySet(pairs) \X CurrencySet(pairs) :
        t[1] # t[2] /\ t[1] # t[3] /\ t[2] # t[3]}

Emitted(opps, t) ==
    {k \in 1..Len(opps) : opps[k].path = <<t[1], t[2], t[3], t[1]>>}

\* 1 + 0.01
OnePercentOver == R(101, 100)

\* C7: the scan emits an opportunity for a triple (A,B,C) exactly when the legs
\* rate(A,B), rate(B,C), rate(C,A), each resolved in the resolver's order
\* (direct quote, else inverse quote, else table), are all > 0 and their
\* product exceeds 1.01, and the profit emitted is (product - 1) x 100.
C7_ScanUsesResolverOrder ==
    ScanHasRun =>
        \A t \in Triples(currencyPairs) :
            LET rateAB  == ExchangeRate(currencyPairs, baseRates, t[1], t[2])
                rateBC  == ExchangeRate(currencyPairs, baseRates, t[2], t[3])
                rateCA  == ExchangeRate(currencyPairs, baseRates, t[3], t[1])
                product == RMul(RMul(rateAB, rateBC), rateCA)
                due     == /\ RGt(rateAB, Zero)
                           /\ RGt(rateBC, Zero)
                           /\ RGt(rateCA, Zero)
                           /\ RGt(product, OnePercentOver)
            IN  /\ due <=> Emitted(arbitrageOpps, t) # {}
                /\ \A k \in Emitted(arbitrageOpps, t) :
                        arbitrageOpps[k].profit = RMul(RSub(product, One), Hundred)

\* the legs of a triple as the scan resolves them
ScanLegs(t) ==
    << CrossCurrencyRate(currencyPairs, baseRates, t[1], t[2]),
       CrossCurrencyRate(currencyPairs, baseRates, t[2], t[3]),
       CrossCurrencyRate(currencyPairs, baseRates, t[3], t[1]) >>

HasUnavailableLeg(t) == \E n \in 1..3 : RLe(ScanLegs(t)[n], Zero)

\* C8: no opportunity the scan returns is for a triple of which a leg, as the
\* scan resolved it, is <= 0.
C8_NoOpportunityWithUnavailableLeg ==
    ScanHasRun =>
        \A t \in Triples(currencyPairs) :
            HasUnavailableLeg(t) => Emitted(arbitrageOpps, t) = {}

\* C8 witness: the scan has run on a collection with a triple whose legs
\* multiply to more than 1.01 while two of them are negative.
C8_Witness ==
    /\ ScanHasRun
    /\ \E t \in Triples(currencyPairs) :
            /\ HasUnavailableLeg(t)
            /\ RGt(RMul(RMul(ScanLegs(t)[1], ScanLegs(t)[2]), ScanLegs(t)[3]),
                   OnePercentOver)

\* the collection is three quotes a = A/B, b = B/C, c = C/A at positive
\* prices, among three distinct currencies, none of them USD
IsTriangle(a, b, c) ==
    /\ a.pairCode = PairCodeOf(a.baseCurrency, b.baseCurrency)
    /\ b.pairCode = PairCodeOf(b.baseCurrency, c.baseCurrency)
    /\ c.pairCode = PairCodeOf(c.baseCurrency, a.baseCurrency)
    /\ Cardinality({a.baseCurrency, b.baseCurrency, c.baseCurrency}) = 3
    /\ USD \notin {a.baseCurrency, b.baseCurrency, c.baseCurrency}
    /\ RGt(a.price, Zero) /\ RGt(b.price, Zero) /\ RGt(c.price, Zero)

C9_BoundaryNotEmitted ==
    (ScanHasRun /\ Len(currencyPairs) = 3
        /\ \E i, j, k \in 1..3 :
              /\ {i, j, k} = 1..3
              /\ IsTriangle(currencyPairs[i], currencyPairs[j], currencyPairs[k])
              /\ RMul(RMul(currencyPairs[i].price, currencyPairs[j].price),
                      currencyPairs[k].price) = OnePercentOver)
    => arbitrageOpps = <<>>

IsRankingCall == lastCall.op \in {"getTopPerformers", "getWorstPerformers"}

\* s is in the order asked for: descending (top) or ascending (worst) by the
\* metric
InRankOrder(s, op, metric) ==
    \A i, j \in 1..Len(s) :
        i < j => IF op = "getTopPerformers"
                 THEN ~RLt(getChangeByMetric(s[i], metric), getChangeByMetric(s[j], metric))
                 ELSE ~RGt(getChangeByMetric(s[i], metric), getChangeByMetric(s[j], metric))

\* s holds every quote of pairs, each as often as pairs does
IsReordering(s, pairs) ==
    /\ Len(s) = Len(pairs)
    /\ \A x \in {pairs[i] : i \in 1..Len(pairs)} :
            Cardinality({i \in 1..Len(s) : s[i] = x})
                = Cardinality({i \in 1..Len(pairs) : pairs[i] = x})

\* C10: getTopPerformers / getWorstPerformers return, without error, the first
\* min(n, size) quotes of the collection ordered by the metric: nothing for
\* every n <= 0, the whole collection for n above its size.
C10_FirstMinCountOfRanking ==
    IsRankingCall =>
        LET size == Len(currencyPairs)
            want == IF lastCall.count <= 0 THEN 0
                    ELSE IF lastCall.count < size THEN lastCall.count ELSE size
        IN  /\ result.threw = "nothing"
            /\ Len(result.value) = want
            /\ InRankOrder(result.value, lastCall.op, lastCall.metric)
            /\ \E rest \in UNION {[1..m -> {currencyPairs[i] : i \in 1..size}] :
                                    m \in {size - want}} :
                    /\ IsReordering(result.value \o rest, currencyPairs)
                    /\ InRankOrder(result.value \o rest, lastCall.op, lastCall.metric)

\* C10 for the counts the code handles: for n >= 0 the result is, without
\* error, the first min(n, size) quotes of an ordering of the collection by the
\* metric.
C10_NonNegativeCounts ==
    (IsRankingCall /\ lastCall.count >= 0) => C10_FirstMinCountOfRanking


----------------------------------------------------------------------------
(* Claims C11 - C20 *)

\* some way of finding the quotes of s in pairs, one position each, that keeps
\* the order of pairs between any two quotes of s with equal metric values
KeepsCollectionOrder(s, pairs, metric) ==
    \E f \in [1..Len(s) -> 1..Len(pairs)] :
        /\ \A i \in 1..Len(s) : pairs[f[i]] = s[i]
        /\ \A i, j \in 1..Len(s) :
              i < j =>
                /\ f[i] # f[j]
                /\ getChangeByMetric(s[i], metric) = getChangeByMetric(s[j], metric)
                      => f[i] < f[j]

\* C11: in every result of getTopPerformers / getWorstPerformers, two quotes
\* whose values of the chosen metric are equal stand in the order they have in
\* the collection (the ranking is stable).
C11_EqualMetricKeepsCollectionOrder ==
    (IsRankingCall /\ result.threw = "nothing") =>
        KeepsCollectionOrder(result.value, currencyPairs, lastCall.metric)


QuoteSet(s) == {s[i] : i \in 1..Len(s)}

\* a getTopPerformers(metric, n) answered, and the next call on the same engine
\* is getWorstPerformers(metric, n), with 2n <= size
TopThenWorst ==
    /\ lastCall.op = "getTopPerformers"
    /\ lastCall'.op = "getWorstPerformers"
    /\ lastCall'.metric = lastCall.metric
    /\ lastCall'.count = lastCall.count
    /\ currencyPairs' = currencyPairs
    /\ 2 * lastCall.count <= Len(currencyPairs)

\* C12 as stated: for 2n <= size, the quotes getTopPerformers(metric, n)
\* returns and the quotes getWorstPerformers(metric, n) returns on the same
\* collection have none in common, equal metric values or not.
C12_TopAndWorstDisjoint ==
    [][TopThenWorst => QuoteSet(result.value) \cap QuoteSet(result'.value) = {}]_vars

\* the n-th lowest / n-th highest value of the metric over the collection
NthLowest(pairs, metric, n) ==
    LET v(i) == getChangeByMetric(pairs[i], metric)
        k == CHOOSE i \in 1..Len(pairs) :
                /\ Cardinality({j \in 1..Len(pairs) : RLt(v(j), v(i))}) < n
                /\ n <= Cardinality({j \in 1..Len(pairs) : RLe(v(j), v(i))})
    IN  v(k)

NthHighest(pairs, metric, n) ==
    LET v(i) == getChangeByMetric(pairs[i], metric)
        k == CHOOSE i \in 1..Len(pairs) :
                /\ Cardinality({j \in 1..Len(pairs) : RGt(v(j), v(i))}) < n
                /\ n <= Cardinality({j \in 1..Len(pairs) : ~RLt(v(j), v(i))})
    IN  v(k)

\* the n lowest values all lie strictly below the n highest (n >= 1)
RanksSeparate(pairs, metric, n) ==
    /\ 1 <= n
    /\ n <= Len(pairs)
    /\ RLt(NthLowest(pairs, metric, n), NthHighest(pairs, metric, n))

\* C12 amended: for 2n <= size, top n and worst n have no quote in common
\* whenever n <= 0 (neither call returns a quote) or the n-th lowest metric
\* value is strictly below the n-th highest; for n >= 1 each side then holds
\* exactly n quotes.
C12_DisjointWhenRanksSeparate ==
    [][(TopThenWorst /\ (lastCall.count <= 0
                           \/ RanksSeparate(currencyPairs, lastCall.metric, lastCall.count)))
          => (/\ QuoteSet(result.value) \cap QuoteSet(result'.value) = {}
              /\ lastCall.count >= 0 =>
                    /\ result.threw = "nothing"
                    /\ result'.threw = "nothing"
                    /\ Len(result.value) = lastCall.count
                    /\ Len(result'.value) = lastCall.count)]_vars

\* C12 witness: three quotes, two of them tied on the metric, worst 1 returned
\* and sharing nothing with any top 1 of the same collection
C12_Witness ==
    /\ lastCall.op = "getWorstPerformers"
    /\ lastCall.count = 1
    /\ Len(currencyPairs) = 3
    /\ RanksSeparate(currencyPairs, lastCall.metric, 1)
    /\ \E i, j \in 1..3 :
          /\ currencyPairs[i] # currencyPairs[j]
          /\ getChangeByMetric(currencyPairs[i], lastCall.metric)
                = getChangeByMetric(currencyPairs[j], lastCall.metric)
    /\ Len(result.value) = 1
    /\ \A top \in TopPerformers(currencyPairs, lastCall.metric, 1) :
          QuoteSet(top.value) \cap QuoteSet(result.value) = {}


\* C13: for every currency X of the loaded collection, the rate from X to X is
\* 1.0 from both resolver entry points, whether or not the table has an entry
\* for X.
C13_SameCurrencyRateIsOne ==
    (/\ IsRateCall
     /\ lastCall.from = lastCall.to
     /\ lastCall.from \in CurrencySet(currencyPairs))
        => result = One


\* neither from/to nor to/from is quoted in the collection
NeitherQuoted(pairs, fromCurrency, toCurrency) ==
    /\ Quoted(pairs, PairCodeOf(fromCurrency, toCurrency)) = {}
    /\ Quoted(pairs, PairCodeOf(toCurrency, fromCurrency)) = {}

\* the step is a call getExchangeRate(from, to)
IsGetExchangeRateStep(fromCurrency, toCurrency) ==
    lastCall' = [op |-> "getExchangeRate", from |-> fromCurrency, to |-> toCurrency]

\* C14: when the collection quotes neither from/to nor to/from and the table
\* lacks an entry for from or for to, getExchangeRate(from, to) returns the
\* number 0.0 and leaves the collection and the table as they were.
C14_ZeroWhenNoRateDerivable ==
    [][\A from, to \in ExampleCurrencies :
          (/\ IsGetExchangeRateStep(from, to)
           /\ NeitherQuoted(currencyPairs, from, to)
           /\ (from \notin DOMAIN baseRates \/ to \notin DOMAIN baseRates))
              => /\ result' = Zero
                 /\ currencyPairs' = currencyPairs
                 /\ baseRates' = baseRates]_vars

\* C14 witness: a table is loaded, JPY has an entry and EUR has none, EUR/JPY
\* is quoted in neither direction, and getExchangeRate("EUR", "JPY") answered 0.0
C14_Witness ==
    /\ lastCall = [op |-> "getExchangeRate", from |-> <<"EUR">>, to |-> <<"JPY">>]
    /\ TableIsCurrent
    /\ <<"JPY">> \in DOMAIN baseRates
    /\ <<"EUR">> \notin DOMAIN baseRates
    /\ <<"EUR">> \in CurrencySet(currencyPairs)
    /\ NeitherQuoted(currencyPairs, <<"EUR">>, <<"JPY">>)
    /\ result = Zero


\* the collection is the three quotes of the worked example, in any order
ExampleLoaded ==
    /\ TableIsCurrent
    /\ Len(currencyPairs) = 3
    /\ QuoteSet(currencyPairs) = { Quote(Code("USD", "INR"), R(83, 1)),
                                   Quote(Code("EUR", "USD"), R(11, 10)),
                                   Quote(Code("USD", "JPY"), R(150, 1)) }

ExampleTable ==
    [c \in ExampleCurrencies |->
        CASE c = USD -> One
          [] c = <<"INR">> -> R(83, 1)
          [] c = <<"EUR">> -> RDiv(One, R(11, 10))
          [] c = <<"JPY">> -> R(150, 1)]

\* C15: when the collection quotes neither from/to nor to/from and the table
\* has an entry for both, getExchangeRate(from, to) returns
\* table[to] / table[from].  With USD/INR = 83, EUR/USD = 1.10, USD/JPY = 150
\* the table is {USD: 1, INR: 83, EUR: 1/1.10, JPY: 150}, rate(EUR, INR) is
\* 83 x 1.10 and rate(INR, EUR) its reciprocal.
C15_TableRatioWhenNotQuoted ==
    /\ (/\ lastCall.op = "getExchangeRate"
        /\ NeitherQuoted(currencyPairs, lastCall.from, lastCall.to)
        /\ lastCall.from \in DOMAIN baseRates
        /\ lastCall.to \in DOMAIN baseRates)
          => result = RDiv(baseRates[lastCall.to], baseRates[lastCall.from])
    /\ ExampleLoaded =>
          /\ baseRates = ExampleTable
          /\ lastCall = [op |-> "getExchangeRate", from |-> <<"EUR">>, to |-> <<"INR">>]
                => result = RMul(R(83, 1), R(11, 10))
          /\ lastCall = [op |-> "getExchangeRate", from |-> <<"INR">>, to |-> <<"EUR">>]
                => result = RDiv(One, RMul(R(83, 1), R(11, 10)))

\* C15 witness: the worked example is loaded and getExchangeRate("EUR", "INR")
\* answered 91.3 from the table
C15_Witness ==
    /\ ExampleLoaded
    /\ lastCall = [op |-> "getExchangeRate", from |-> <<"EUR">>, to |-> <<"INR">>]
    /\ NeitherQuoted(currencyPairs, <<"EUR">>, <<"INR">>)
    /\ result = R(913, 10)


\* C16: whenever calculateBaseRates has run on the collection the engine holds,
\* the table is the one a run from an empty table yields (nothing is carried
\* over from the table held before), and a further run on the same collection
\* yields the same table again: the same currencies, each with the same value.
C16_RebuildIsIdempotent ==
    TableIsCurrent =>
        /\ baseRates = calculateBaseRates(EmptyTable, currencyPairs)
        /\ calculateBaseRates(baseRates, currencyPairs) = baseRates

\* C16 witness: the table was rebuilt over a table that held another value for
\* one of its currencies (the table of the collection without its last quote)
C16_Witness ==
    /\ TableIsCurrent
    /\ lastCall.op \in {"loadFromJson", "loadFromCsv"}
    /\ Len(currencyPairs) >= 2
    /\ LET before == calculateBaseRates(EmptyTable,
                        SubSeq(currencyPairs, 1, Len(currencyPairs) - 1))
       IN  \E c \in DOMAIN before \cap DOMAIN baseRates :
              /\ c # USD
              /\ before[c] # baseRates[c]
              /\ \A i \in 1..Len(currencyPairs) :
                    PairedWithUsd(currencyPairs[i]) => UsdSeed(currencyPairs[i])[1] # c


IsListCall ==
    lastCall.op \in {"getAvailableCurrencies", "getAvailableCurrencyPairs",
                     "detectSignificantMovements", "identifyTradingOpportunities"}

\* C17: while the collection is empty (never loaded, or emptied by a load that
\* produced no quote, whatever was loaded before), every query answers empty or
\* zero and none throws: the rankers and the four listings return an empty
\* list, getExchangeRate and calculateCrossCurrencyRate return 0.0 for any two
\* currencies.
C17_EmptyCollectionAnswersEmpty ==
    currencyPairs = <<>> =>
        /\ IsRateCall => result = Zero
        /\ IsRankingCall => (result.threw = "nothing" /\ result.value = <<>>)
        /\ IsListCall => result = <<>>


\* the quotes of pairs whose price is strictly positive
PositiveQuotes(pairs) == SelectSeq(pairs, LAMBDA pair : RGt(pair.price, Zero))

\* C18: calculateBaseRates never sets a table entry from a quote whose price is
\* zero or negative, in the seed pass or in propagation: the table holds
\* entries only for USD and the currencies the quotes of positive price link
\* to it, and every entry is a strictly positive number.
C18_NoEntryFromNonPositivePrice ==
    derivedFrom # <<>> =>
        /\ DOMAIN baseRates = Connected({USD}, PositiveQuotes(derivedFrom))
        /\ \A c \in DOMAIN baseRates :
              IsFinite(baseRates[c]) /\ RGt(baseRates[c], Zero)


\* the positions of the quotes whose day change exceeds 0.5 in magnitude
Significant(pairs) ==
    {i \in 1..Len(pairs) :
        \/ RGt(pairs[i].percentChange, R(1, 2))
        \/ RLt(pairs[i].percentChange, R(-1, 2))}

\* the k-th smallest element of a set of positions
Nth(S, k) == CHOOSE i \in S : Cardinality({j \in S : j < i}) = k - 1

\* C19: detectSignificantMovements returns, in collection order, one finding
\* for each quote whose day percent change is above 0.5 in magnitude and none
\* for any other quote (a change of exactly 0.5 or -0.5 is not reported); a
\* finding names the pair, the direction (up for a positive change, down for a
\* negative one), the magnitude of the change and the price.
C19_OneFindingPerSignificantQuote ==
    lastCall.op = "detectSignificantMovements" =>
        LET S == Significant(currencyPairs) IN
        /\ Len(result) = Cardinality(S)
        /\ \A k \in 1..Len(result) :
              LET pair == currencyPairs[Nth(S, k)] IN
              /\ result[k][1] = pair.pairCode
              /\ result[k][3] = (IF RGt(pair.percentChange, Zero) THEN "UP " ELSE "DOWN ")
              /\ RLt(pair.percentChange, Zero) => result[k][3] = "DOWN "
              /\ result[k][4] = Fixed(RAbs(pair.percentChange), 2)
              /\ result[k][7] = Fixed(pair.price, 4)

\* C19 witness: three quotes with day changes 0.5, -0.75 and 0.6 in that
\* order; the detector reported the second (down) and the third (up) only
C19_Witness ==
    /\ lastCall.op = "detectSignificantMovements"
    /\ Len(currencyPairs) = 3
    /\ currencyPairs[1].percentChange = R(1, 2)
    /\ currencyPairs[2].percentChange = R(-3, 4)
    /\ currencyPairs[3].percentChange = R(3, 5)
    /\ Len(result) = 2
    /\ result[1][1] = Code("B", "A")
    /\ result[1][3] = "DOWN "
    /\ result[2][1] = Code("A", "B")
    /\ result[2][3] = "UP "


\* getInvertedPair answered, and the next step inverts the record it returned
InvertedTwice ==
    /\ lastCall.op = "getInvertedPair"
    /\ lastCall'.op = "getInvertedPair"
    /\ <<result, lastCall>>' # <<result, lastCall>>

\* the second inversion returned the record the first was called on, all twelve
\* fields equal, and left the record it was called on as it was
BackToOriginal ==
    /\ result' = lastCall.source
    /\ lastCall'.source = result

\* C20 as stated: for every quote record with price > 0, inverting the record
\* and inverting the result gives a record equal to the original in pair code,
\* base and quote currency, price, the five percent metrics, the absolute day
\* change, group and timestamp, and neither inversion modifies its source.
C20_InvertTwiceIsOriginal ==
    [][(InvertedTwice /\ RGt(lastCall.source.price, Zero)) => BackToOriginal]_vars

Separators(s) == Cardinality({i \in 1..Len(s) : s[i] = Slash})

\* C20 amended: the same, for records with a finite price > 0 whose pair code
\* holds exactly one separator.
C20_InvertTwiceIsOriginalWhenWellFormed ==
    [][(/\ InvertedTwice
        /\ RGt(lastCall.source.price, Zero)
        /\ IsFinite(lastCall.source.price)
        /\ Separators(lastCall.source.pairCode) = 1) => BackToOriginal]_vars

\* C20 witness: A/B at 2 with day change 0.25 and percent change 5 is held
\* again after getInvertedPair was called on B/A at 0.5 (no parsed record has
\* that price with the percent change -100/21 of the inverse, so the record
\* held is the second inversion of the original)
C20_Witness ==
    /\ lastCall.op = "getInvertedPair"
    /\ lastCall.source.pairCode = Code("B", "A")
    /\ lastCall.source.price = R(1, 2)
    /\ lastCall.source.dayChange = R(-1, 16)
    /\ lastCall.source.percentChange = R(-100, 21)
    /\ result = NewCurrencyPair(Code("A", "B"), R(2, 1), R(1, 4), R(5, 1), R(-3, 1),
                                Zero, R(-1, 1), R(5, 1), "Major", "09:30")


----------------------------------------------------------------------------
(* Claims C21 - C27 *)

HoldsRecord ==
    lastCall.op \in {"parseCurrencyPairFromJson", "setPairCode", "getInvertedPair"}

\* C21: every quote record whose pair code contains the separator has a
\* non-empty base currency and a non-empty quote currency that differ, after
\* construction from a pair code, after setPairCode and after getInvertedPair.
C21_BaseAndQuoteNonEmptyAndDistinct ==
    (HoldsRecord /\ FindSlash(result.pairCode) # 0) =>
        /\ result.baseCurrency # EmptyString
        /\ result.quoteCurrency # EmptyString
        /\ result.baseCurrency # result.quoteCurrency


\* C22: getAvailableCurrencies returns a list in which no currency code occurs
\* twice and getAvailableCurrencyPairs one in which no pair code occurs twice,
\* also when several quotes of the collection have the same pair code.
C22_ListingsHoldNoDuplicate ==
    lastCall.op \in {"getAvailableCurrencies", "getAvailableCurrencyPairs"} =>
        \A i, j \in 1..Len(result) : i # j => result[i] # result[j]


\* the step is one iteration of the for loop of the propagation phase
IsPropagateIteration ==
    /\ InPropagation
    /\ lastCall'.op = "calculateBaseRates"
    /\ lastCall'.pass = lastCall.pass
    /\ lastCall'.next = lastCall.next + 1

\* C23: the propagation loop of calculateBaseRates terminates for every
\* collection (pair codes without separator, self-pairs, repeated pairs and
\* cycles included): an iteration that changes the table or raises
\* ratesUpdated adds exactly one currency the table did not hold, so no more
\* than size + 1 passes are made, and the loop, once entered, is left.
C23_PropagationTerminates ==
    /\ [][IsPropagateIteration =>
            ((baseRates' # baseRates \/ lastCall'.ratesUpdated # lastCall.ratesUpdated)
                => /\ lastCall'.ratesUpdated
                   /\ DOMAIN baseRates \subseteq DOMAIN baseRates'
                   /\ DOMAIN baseRates' # DOMAIN baseRates)]_vars
    /\ [](InPropagation => lastCall.pass <= Len(currencyPairs) + 1)
    /\ (InPropagation ~> ~InPropagation)

\* C23 witness: a load returned true after three passes of the loop (the chain
\* USD - A - B - C met in an order that adds one currency per pass)
C23_Witness ==
    /\ lastCall.op = "loadFromJson"
    /\ lastCall.passes = 3
    /\ result = TRUE
    /\ <<"C">> \in DOMAIN baseRates
    /\ baseRates = calculateBaseRates(EmptyTable, currencyPairs)


\* C24: during the propagation phase the table only grows: every entry it
\* holds (from the seed loop, the USD = 1.0 assignment or an earlier
\* propagation step) is still there with the same value after each iteration
\* and each pass, so a currency that several quotes could derive keeps the
\* value of the first derivation in iteration order; the table left at the end
\* is the one calculateBaseRates yields as a whole.
C24_PropagationNeverOverwrites ==
    /\ [][(InPropagation /\ lastCall'.op \in {"calculateBaseRates", "loadFromJson"})
            => \A c \in DOMAIN baseRates :
                  /\ c \in DOMAIN baseRates'
                  /\ baseRates'[c] = baseRates[c]]_vars
    /\ []((lastCall.op = "loadFromJson" /\ result = TRUE /\ TableIsCurrent)
            => baseRates = calculateBaseRates(EmptyTable, currencyPairs))

\* C24 witness: USD/A, then A/B before B/A: the load is over, B holds the value
\* derived from A/B (table[A] x price) and not the one B/A would give
\* (table[A] / price)
C24_Witness ==
    /\ lastCall.op = "loadFromJson"
    /\ result = TRUE
    /\ Len(currencyPairs) = 3
    /\ currencyPairs[1].pairCode = Code("USD", "A")
    /\ currencyPairs[2].pairCode = Code("A", "B")
    /\ currencyPairs[3].pairCode = Code("B", "A")
    /\ baseRates[<<"B">>] = RMul(baseRates[<<"A">>], currencyPairs[2].price)
    /\ baseRates[<<"B">>] # RDiv(baseRates[<<"A">>], currencyPairs[3].price)


QueryOps ==
    {"getExchangeRate", "calculateCrossCurrencyRate", "getTopPerformers",
     "getWorstPerformers", "getAvailableCurrencies", "getAvailableCurrencyPairs",
     "detectSignificantMovements", "identifyTradingOpportunities"}

\* C25: every query (getExchangeRate, calculateCrossCurrencyRate,
\* getTopPerformers, getWorstPerformers, getAvailableCurrencies,
\* getAvailableCurrencyPairs, detectSignificantMovements,
\* identifyTradingOpportunities) leaves the collection, content and order, and
\* the table as they were, whatever its arguments; a step that changes either
\* is a loadFromJson or a loadFromCsv.
C25_QueriesChangeNothing ==
    [][/\ lastCall'.op \in QueryOps
            => (currencyPairs' = currencyPairs /\ baseRates' = baseRates)
       /\ (currencyPairs' # currencyPairs \/ baseRates' # baseRates)
            => lastCall'.op \in {"loadFromJson", "loadFromCsv"}]_vars

\* C25 witness: calculateCrossCurrencyRate was asked about a currency without
\* table entry, on a loaded collection whose table is the one built from it
C25_Witness ==
    /\ lastCall.op = "calculateCrossCurrencyRate"
    /\ lastCall.to \notin DOMAIN baseRates
    /\ lastCall.from \in DOMAIN baseRates
    /\ TableIsCurrent
    /\ Len(currencyPairs) = 2
    /\ baseRates = calculateBaseRates(EmptyTable, currencyPairs)


\* every currency of the triple has a table entry above zero
InTable(t) == \A n \in 1..3 : t[n] \in DOMAIN baseRates /\ RGt(baseRates[t[n]], Zero)

\* C26: for every ordered triple of distinct currencies that all have a
\* positive table entry, the three legs taken from the table multiply to
\* exactly 1 and the scan emits no opportunity for the triple, whatever prices
\* the collection quotes between those currencies.
C26_NoOpportunityAmongTableCurrencies ==
    ScanHasRun =>
        \A t \in Triples(currencyPairs) :
            InTable(t) =>
                /\ ScanLegs(t) = << RDiv(baseRates[t[2]], baseRates[t[1]]),
                                    RDiv(baseRates[t[3]], baseRates[t[2]]),
                                    RDiv(baseRates[t[1]], baseRates[t[3]]) >>
                /\ RMul(RMul(ScanLegs(t)[1], ScanLegs(t)[2]), ScanLegs(t)[3]) = One
                /\ Emitted(arbitrageOpps, t) = {}

\* C26 witness: USD/A = 2, USD/B = 3 and A/B = 2 are loaded (the quoted A/B
\* differs from the 1.5 the table gives) and the scan ran and emitted nothing
C26_Witness ==
    /\ ScanHasRun
    /\ TableIsCurrent
    /\ QuoteSet(currencyPairs) = { Quote(Code("USD", "A"), R(2, 1)),
                                   Quote(Code("USD", "B"), R(3, 1)),
                                   Quote(Code("A", "B"), R(2, 1)) }
    /\ InTable(<<USD, <<"A">>, <<"B">>>>)
    /\ RDiv(baseRates[<<"B">>], baseRates[<<"A">>]) # R(2, 1)
    /\ arbitrageOpps = <<>>


AllPricesPositive(pairs) == \A i \in 1..Len(pairs) : RGt(pairs[i].price, Zero)

\* calculateCrossCurrencyRate(A, B) answered v; asked the other way round in
\* the same state it answers CrossBack
CrossBack ==
    CrossCurrencyRate(currencyPairs, baseRates, lastCall.to, lastCall.from)

ZeroTogetherElseReciprocal ==
    /\ result = Zero <=> CrossBack = Zero
    /\ result # Zero => RMul(result, CrossBack) = One

\* C27: on every collection with positive prices and for every two currencies
\* A and B, calculateCrossCurrencyRate(A, B) is 0.0 exactly when
\* calculateCrossCurrencyRate(B, A) is 0.0, and otherwise the two multiply to
\* exactly 1.
C27_CrossRatesAreReciprocal ==
    (lastCall.op = "calculateCrossCurrencyRate" /\ AllPricesPositive(currencyPairs))
        => ZeroTogetherElseReciprocal

\* C27 for two different currencies and a table built from the collection held
C27_DistinctCurrenciesCurrentTable ==
    (/\ lastCall.op = "calculateCrossCurrencyRate"
     /\ AllPricesPositive(currencyPairs)
     /\ lastCall.from # lastCall.to
     /\ TableIsCurrent)
        => ZeroTogetherElseReciprocal

=============================================================================
